---- MODULE Spec2Model ----
(***************************************************************************)
(* Model of src/services/whisper-server.py: a FastAPI application with one *)
(* resident faster-whisper model, a POST /transcribe coroutine and a GET   *)
(* /health coroutine, served by uvicorn on a single event loop.            *)
(*                                                                         *)
(* Text is modelled as a sequence of one-character strings, a byte buffer  *)
(* as a sequence of integers 0..255, and a float sample n/32768 as the     *)
(* record [num |-> n, den |-> 32768] (every int16 over 32768 is exact in   *)
(* float32).  The model library (faster_whisper) is not part of the        *)
(* repository: each of its calls is a nondeterministic choice between      *)
(* returning and raising.                                                  *)
(***************************************************************************)
EXTENDS Integers, Sequences, FiniteSets, TLC

\* ---------------------------------------------------------------- bounds

\* Number of request slots, i.e. of transcription requests open at once.
NumReqs == 3

\* Longest segment sequence the model emits for one request.
MaxSegs == 2

\* Longest byte buffer given to the decoder in SpecDecode.
MaxBytes == 4

\* ------------------------------------------------------ program constants

\* np.int16: two bytes per sample.
ItemSize == 2

\* The divisor of the normalisation.
Scale == 32768

Reqs == 1 .. NumReqs

NoReq == 0

\* ----------------------------------------------------------------- inputs

\* Request bodies: empty, of odd lengths 1 and 3, one sample.
Buffers == { <<>>, <<7>>, <<0, 128>>, <<1, 0, 255>> }

\* Byte values given to the decoder in SpecDecode.
SampleBytes == {0, 1, 127, 128, 255}

Hello == <<"h", "e", "l", "l", "o">>

World == <<"w", "o", "r", "l", "d">>

\* A segment text with whitespace at both ends (faster-whisper's segment
\* texts usually start with a space).
Padded == <<" ", "a", "\t">>

SegTexts == {Hello, World, Padded}

\* What the model reports as info.language, info.language_probability
\* (a probability in percent) for language="en".
Infos ==
    { [language |-> "en", language_probability |-> 100],
      [language |-> "en", language_probability |-> 37] }

\* os.getenv("MODEL_SIZE", "base"), os.getenv("DEVICE", "cpu").
ModelSizes == {"base"}

Devices == {"cpu"}

\* Exceptions the handler's steps raise, as [type, msg]; msg is str(e).
ClientDisconnect == [type |-> "ClientDisconnect", msg |-> ""]

BufferSizeError ==
    [type |-> "ValueError",
     msg |-> "buffer size must be a multiple of element size"]

ModelFaults == { [type |-> "RuntimeError", msg |-> "device fault"] }

\* Every exception type above derives from Exception.
ExceptionSubclasses == {"ClientDisconnect", "ValueError", "RuntimeError"}

\* ------------------------------------------------------------------ state

VARIABLES
    pc,            \* per request: the handler's position
    wire,          \* per request: whether the body is on the connection
    audio_data,    \* per request: line 31
    audio_float,   \* per request: line 37
    info,          \* per request: line 40
    text_parts,    \* per request: line 49
    emitted,       \* per request: the segments the model's generator yielded
    result,        \* per request: the returned object
    raised,        \* per request: the step whose exception was raised
    calls,         \* per request: model.transcribe calls issued
    inflight,      \* requests inside model.transcribe or its generator
    running,       \* the request whose task holds the event loop thread
    ready,         \* requests whose body arrived, in order of arrival
    blocked,       \* those of ready whose body arrived during an inference
    modelFaulted,  \* a request has ended on a fault of the model
    model_size,    \* line 15
    device,        \* line 16
    startup,       \* the configuration read at startup
    healthResp,    \* the last response of /health
    dec_in,        \* SpecDecode: the buffer
    dec_out        \* SpecDecode: the decoder's outcome

vars ==
    << pc, wire, audio_data, audio_float, info, text_parts, emitted, result,
       raised, calls, inflight, running, ready, blocked, modelFaulted,
       model_size, device, startup, healthResp, dec_in, dec_out >>

reqVars ==
    << pc, wire, audio_data, audio_float, info, text_parts, emitted, result,
       raised, calls, inflight, running, ready, blocked, modelFaulted >>

\* What request handling does not touch.
cfgVars == << model_size, device, startup, healthResp, dec_in, dec_out >>

NoResult == [pending |-> TRUE]

NoInfo == [pending |-> TRUE]

\* ------------------------------------------------------- the audio decoder

\* Two's complement reading of a 16-bit word.
ToInt16(w) == ((w + 32768) % 65536) - 32768

\* BufferOk of a decoder that drops a trailing odd byte.
BufferOkTruncating(bytes) == TRUE

\* BufferOk of a decoder that takes an empty body for an error.
BufferOkNonEmpty(bytes) == Len(bytes) > 0 /\ Len(bytes) % ItemSize = 0

\* np.frombuffer accepts only a whole number of items.
BufferOk(bytes) == Len(bytes) % ItemSize = 0

\* FromBuffer with the high byte first (dtype=">i2").
FromBufferBigEndian(bytes) ==
    [i \in 1 .. (Len(bytes) \div ItemSize) |->
        ToInt16(256 * bytes[ItemSize * i - 1] + bytes[ItemSize * i])]

\* np.frombuffer(audio_data, dtype=np.int16), low byte first.
FromBuffer(bytes) ==
    [i \in 1 .. (Len(bytes) \div ItemSize) |->
        ToInt16(bytes[ItemSize * i - 1] + 256 * bytes[ItemSize * i])]

\* audio_array.astype(np.float32) / 32768.0
Normalize(arr) ==
    [i \in 1 .. Len(arr) |-> [num |-> arr[i], den |-> Scale]]

\* ---------------------------------------------------- the segment assembler

\* str.strip() removes these from both ends.
Whitespace == {" ", "\t", "\n"}

\* AppendPart as text_parts.insert(0, segment.text).
PrependPart(parts, t) == <<t>> \o parts

\* text_parts.append(segment.text)
AppendPart(parts, t) == Append(parts, t)

RECURSIVE Join(_, _)
\* sep.join(parts)
Join(sep, parts) ==
    IF parts = <<>> THEN <<>>
    ELSE IF Len(parts) = 1 THEN parts[1]
    ELSE parts[1] \o sep \o Join(sep, Tail(parts))

RECURSIVE LStrip(_)
LStrip(s) ==
    IF s = <<>> THEN s
    ELSE IF Head(s) \in Whitespace THEN LStrip(Tail(s))
    ELSE s

RECURSIVE RStrip(_)
RStrip(s) ==
    IF s = <<>> THEN s
    ELSE IF s[Len(s)] \in Whitespace THEN RStrip(SubSeq(s, 1, Len(s) - 1))
    ELSE s

\* str.strip()
Strip(s) == RStrip(LStrip(s))

\* " ".join(text_parts).strip()
FullText(parts) == Strip(Join(<<" ">>, parts))

\* ------------------------------------------------------------- the handler

\* SuccessResult of a handler that remembers a fault of the model and answers
\* every later request with it.
SuccessResultAfterFault(text, inf) ==
    IF modelFaulted
    THEN [text |-> <<>>, is_final |-> TRUE, error |-> "device fault"]
    ELSE [text |-> text, is_final |-> TRUE, language |-> inf.language,
          language_probability |-> inf.language_probability]

\* SuccessResult of a handler that reports an empty transcript as an error.
SuccessResultNoSpeech(text, inf) ==
    IF text = <<>>
    THEN [text |-> <<>>, is_final |-> TRUE, error |-> "no speech detected"]
    ELSE [text |-> text, is_final |-> TRUE, language |-> inf.language,
          language_probability |-> inf.language_probability]

\* The object returned at lines 55-60.
SuccessResult(text, inf) ==
    [text |-> text, is_final |-> TRUE, language |-> inf.language,
     language_probability |-> inf.language_probability]

\* ErrorResult with the forced language reported as well.
ErrorResultWithLanguage(e) ==
    [text |-> <<>>, is_final |-> TRUE, error |-> e.msg, language |-> "en"]

\* The object returned at lines 63-67.
ErrorResult(e) == [text |-> <<>>, is_final |-> TRUE, error |-> e.msg]

\* Caught for `except ValueError as e`.
CaughtValueError(e) == e.type = "ValueError"

\* except Exception as e
Caught(e) == e.type \in ExceptionSubclasses

\* LoopFree for a handler run on a pool of worker threads (a plain `def`
\* handler): a request never waits for another one.
LoopFreeThreaded == TRUE

\* The event loop runs one task at a time; a task gives the thread up only
\* at an await or when it ends.
LoopFree == running = NoReq

\* The task of request r is the one executing.
Holds(r) == running = r

\* Raise for a handler that starts over on an exception.
RaiseAndRetry(r, e, at) ==
    /\ raised' = [raised EXCEPT ![r] = at]
    /\ inflight' = inflight \ {r}
    /\ running' = r
    /\ modelFaulted' = (modelFaulted \/ at \in {"transcribe", "segments"})
    /\ pc' = [pc EXCEPT ![r] = "decoding"]
    /\ result' = result

\* Raise for a handler that calls the model again when the model raised.
RaiseRetryingModel(r, e, at) ==
    /\ raised' = [raised EXCEPT ![r] = at]
    /\ inflight' = inflight \ {r}
    /\ running' = r
    /\ modelFaulted' = (modelFaulted \/ at \in {"transcribe", "segments"})
    /\ IF at \in {"transcribe", "segments"}
       THEN /\ pc' = [pc EXCEPT ![r] = "transcribing"]
            /\ result' = result
       ELSE /\ pc' = [pc EXCEPT ![r] = "failed"]
            /\ result' = [result EXCEPT ![r] = ErrorResult(e)]

\* Raise for a handler that returns the text collected so far with the error.
RaiseKeepingText(r, e, at) ==
    /\ raised' = [raised EXCEPT ![r] = at]
    /\ inflight' = inflight \ {r}
    /\ running' = r
    /\ modelFaulted' = (modelFaulted \/ at \in {"transcribe", "segments"})
    /\ pc' = [pc EXCEPT ![r] = "failed"]
    /\ result' =
          [result EXCEPT
              ![r] = [text |-> FullText(text_parts[r]), is_final |-> TRUE,
                      error |-> e.msg]]

\* An exception e raised in request r at step `at`: the except clause returns
\* the error object, or the exception leaves the handler.
Raise(r, e, at) ==
    /\ raised' = [raised EXCEPT ![r] = at]
    /\ inflight' = inflight \ {r}
    /\ running' = r
    /\ modelFaulted' = (modelFaulted \/ at \in {"transcribe", "segments"})
    /\ IF Caught(e)
       THEN /\ pc' = [pc EXCEPT ![r] = "failed"]
            /\ result' = [result EXCEPT ![r] = ErrorResult(e)]
       ELSE /\ pc' = [pc EXCEPT ![r] = "crashed"]
            /\ result' = result

\* A request is routed to transcribe(); the coroutine runs to the await of
\* line 31 and is suspended there.
Accept(r) ==
    /\ UNCHANGED cfgVars
    /\ LoopFree
    /\ pc[r] = "idle"
    /\ pc' = [pc EXCEPT ![r] = "reading"]
    /\ UNCHANGED << wire, audio_data, audio_float, info, text_parts, emitted,
                    result, raised, calls, inflight, running, ready, blocked,
                    modelFaulted >>

\* The body of request r is complete on its connection; the event loop
\* learns of it when it next runs.
BodyArrives(r) ==
    /\ UNCHANGED cfgVars
    /\ pc[r] = "reading"
    /\ wire[r] = "waiting"
    /\ wire' = [wire EXCEPT ![r] = "arrived"]
    /\ ready' = Append(ready, r)
    /\ blocked' = IF inflight # {} THEN blocked \cup {r} ELSE blocked
    /\ UNCHANGED << pc, audio_data, audio_float, info, text_parts, emitted,
                    result, raised, calls, inflight, running, modelFaulted >>

RemoveReq(q, r) == SelectSeq(q, LAMBDA x : x # r)

\* Line 31 returns the body b: the event loop resumes the task of a request
\* whose body arrived.  The handler has no queue of its own: which of
\* several such tasks runs first is the event loop's choice.
Resume(r, b) ==
    /\ UNCHANGED cfgVars
    /\ LoopFree
    /\ pc[r] = "reading"
    /\ wire[r] = "arrived"
    /\ running' = r
    /\ audio_data' = [audio_data EXCEPT ![r] = b]
    /\ pc' = [pc EXCEPT ![r] = "decoding"]
    /\ ready' = RemoveReq(ready, r)
    /\ blocked' = blocked \ {r}
    /\ UNCHANGED << wire, audio_float, info, text_parts, emitted, result,
                    raised, calls, inflight, modelFaulted >>

\* Line 31 raises: the client went away before the body was complete.
BodyFails(r) ==
    /\ UNCHANGED cfgVars
    /\ LoopFree
    /\ pc[r] = "reading"
    /\ wire[r] = "waiting"
    /\ Raise(r, ClientDisconnect, "body")
    /\ UNCHANGED << wire, audio_data, audio_float, info, text_parts, emitted,
                    calls, ready, blocked >>

\* Lines 34-37.
Decode(r) ==
    /\ UNCHANGED cfgVars
    /\ Holds(r)
    /\ pc[r] = "decoding"
    /\ IF BufferOk(audio_data[r])
       THEN /\ audio_float' =
                  [audio_float EXCEPT
                      ![r] = Normalize(FromBuffer(audio_data[r]))]
            /\ pc' = [pc EXCEPT ![r] = "transcribing"]
            /\ UNCHANGED << result, raised, inflight, running,
                            modelFaulted >>
       ELSE /\ Raise(r, BufferSizeError, "decode")
            /\ UNCHANGED audio_float
    /\ UNCHANGED << wire, audio_data, info, text_parts, emitted, calls,
                    ready, blocked >>

\* Line 40: the call of model.transcribe is issued.
CallModel(r) ==
    /\ UNCHANGED cfgVars
    /\ Holds(r)
    /\ pc[r] = "transcribing"
    /\ r \notin inflight
    /\ inflight' = inflight \cup {r}
    /\ calls' = [calls EXCEPT ![r] = calls[r] + 1]
    /\ UNCHANGED << pc, wire, audio_data, audio_float, info, text_parts,
                    emitted, result, raised, running, ready, blocked,
                    modelFaulted >>

\* Lines 40-49: model.transcribe returns the generator and info.
ModelReturns(r, inf) ==
    /\ UNCHANGED cfgVars
    /\ Holds(r)
    /\ pc[r] = "transcribing"
    /\ r \in inflight
    /\ info' = [info EXCEPT ![r] = inf]
    /\ text_parts' = [text_parts EXCEPT ![r] = <<>>]
    /\ pc' = [pc EXCEPT ![r] = "assembling"]
    /\ UNCHANGED << wire, audio_data, audio_float, emitted, result, raised,
                    calls, inflight, running, ready, blocked, modelFaulted >>

\* Line 40: model.transcribe raises.
ModelRaises(r, e) ==
    /\ UNCHANGED cfgVars
    /\ Holds(r)
    /\ pc[r] = "transcribing"
    /\ r \in inflight
    /\ Raise(r, e, "transcribe")
    /\ UNCHANGED << wire, audio_data, audio_float, info, text_parts, emitted,
                    calls, ready, blocked >>

\* Lines 50-51: the generator yields a segment.
YieldSegment(r, t) ==
    /\ UNCHANGED cfgVars
    /\ Holds(r)
    /\ pc[r] = "assembling"
    /\ Len(emitted[r]) < MaxSegs
    /\ emitted' = [emitted EXCEPT ![r] = Append(emitted[r], t)]
    /\ text_parts' = [text_parts EXCEPT ![r] = AppendPart(text_parts[r], t)]
    /\ UNCHANGED << pc, wire, audio_data, audio_float, info, result, raised,
                    calls, inflight, running, ready, blocked, modelFaulted >>

\* Line 50: the generator raises.
IterRaises(r, e) ==
    /\ UNCHANGED cfgVars
    /\ Holds(r)
    /\ pc[r] = "assembling"
    /\ Raise(r, e, "segments")
    /\ UNCHANGED << wire, audio_data, audio_float, info, text_parts, emitted,
                    calls, ready, blocked >>

\* Lines 50-60: the generator is exhausted, the text is joined and the
\* result returned.
Exhausted(r) ==
    /\ UNCHANGED cfgVars
    /\ Holds(r)
    /\ pc[r] = "assembling"
    /\ inflight' = inflight \ {r}
    /\ result' =
          [result EXCEPT
              ![r] = SuccessResult(FullText(text_parts[r]), info[r])]
    /\ pc' = [pc EXCEPT ![r] = "succeeded"]
    /\ UNCHANGED << wire, audio_data, audio_float, info, text_parts, emitted,
                    raised, calls, running, ready, blocked, modelFaulted >>

\* Respond of a handler whose task ends without giving the thread up.
RespondKeepingLoop(r) ==
    /\ UNCHANGED cfgVars
    /\ Holds(r)
    /\ pc[r] \in {"succeeded", "failed", "crashed"}
    /\ pc' = [pc EXCEPT ![r] = "idle"]
    /\ wire' = [wire EXCEPT ![r] = "waiting"]
    /\ audio_data' = [audio_data EXCEPT ![r] = <<>>]
    /\ audio_float' = [audio_float EXCEPT ![r] = <<>>]
    /\ info' = [info EXCEPT ![r] = NoInfo]
    /\ text_parts' = [text_parts EXCEPT ![r] = <<>>]
    /\ emitted' = [emitted EXCEPT ![r] = <<>>]
    /\ result' = [result EXCEPT ![r] = NoResult]
    /\ raised' = [raised EXCEPT ![r] = "none"]
    /\ calls' = [calls EXCEPT ![r] = 0]
    /\ UNCHANGED << inflight, running, ready, blocked, modelFaulted >>

\* The handler's task ends: the response goes to the client, the locals of
\* the request are gone and the slot is free for a new request.
Respond(r) ==
    /\ UNCHANGED cfgVars
    /\ Holds(r)
    /\ pc[r] \in {"succeeded", "failed", "crashed"}
    /\ running' = NoReq
    /\ pc' = [pc EXCEPT ![r] = "idle"]
    /\ wire' = [wire EXCEPT ![r] = "waiting"]
    /\ audio_data' = [audio_data EXCEPT ![r] = <<>>]
    /\ audio_float' = [audio_float EXCEPT ![r] = <<>>]
    /\ info' = [info EXCEPT ![r] = NoInfo]
    /\ text_parts' = [text_parts EXCEPT ![r] = <<>>]
    /\ emitted' = [emitted EXCEPT ![r] = <<>>]
    /\ result' = [result EXCEPT ![r] = NoResult]
    /\ raised' = [raised EXCEPT ![r] = "none"]
    /\ calls' = [calls EXCEPT ![r] = 0]
    /\ UNCHANGED << inflight, ready, blocked, modelFaulted >>

\* --------------------------------------------------------------- readiness

\* HealthBody of a server that reports a model fault as its own state.
HealthBodyDegraded ==
    [status |-> IF modelFaulted THEN "degraded" ELSE "ok",
     model |-> model_size, device |-> device]

\* The object returned at line 71.
HealthBody == [status |-> "ok", model |-> model_size, device |-> device]

\* GET /health: a coroutine without an await.
Health ==
    /\ LoopFree
    /\ healthResp' = HealthBody
    /\ UNCHANGED << reqVars, model_size, device, startup, dec_in, dec_out >>

\* ----------------------------------------------------------- specification

Init ==
    /\ pc = [r \in Reqs |-> "idle"]
    /\ wire = [r \in Reqs |-> "waiting"]
    /\ audio_data = [r \in Reqs |-> <<>>]
    /\ audio_float = [r \in Reqs |-> <<>>]
    /\ info = [r \in Reqs |-> NoInfo]
    /\ text_parts = [r \in Reqs |-> <<>>]
    /\ emitted = [r \in Reqs |-> <<>>]
    /\ result = [r \in Reqs |-> NoResult]
    /\ raised = [r \in Reqs |-> "none"]
    /\ calls = [r \in Reqs |-> 0]
    /\ inflight = {}
    /\ running = NoReq
    /\ ready = <<>>
    /\ blocked = {}
    /\ modelFaulted = FALSE
    /\ model_size \in ModelSizes
    /\ device \in Devices
    /\ startup = [size |-> model_size, device |-> device]
    /\ healthResp = NoResult
    /\ dec_in = <<>>
    /\ dec_out = NoResult

Next ==
    \/ \E r \in Reqs : Accept(r)
    \/ \E r \in Reqs : BodyArrives(r)
    \/ \E r \in Reqs, b \in Buffers : Resume(r, b)
    \/ \E r \in Reqs : BodyFails(r)
    \/ \E r \in Reqs : Decode(r)
    \/ \E r \in Reqs : CallModel(r)
    \/ \E r \in Reqs, inf \in Infos : ModelReturns(r, inf)
    \/ \E r \in Reqs, e \in ModelFaults : ModelRaises(r, e)
    \/ \E r \in Reqs, t \in SegTexts : YieldSegment(r, t)
    \/ \E r \in Reqs, e \in ModelFaults : IterRaises(r, e)
    \/ \E r \in Reqs : Exhausted(r)
    \/ \E r \in Reqs : Respond(r)
    \/ Health

Spec == Init /\ [][Next]_vars

\* The synchronous part of the handler of request r, lines 33-67: once its
\* task has the thread it runs on; model.transcribe returns or raises and the
\* segment generator ends or raises.
HandlerStep(r) ==
    \/ Decode(r)
    \/ CallModel(r)
    \/ \E inf \in Infos : ModelReturns(r, inf)
    \/ \E e \in ModelFaults : ModelRaises(r, e)
    \/ Exhausted(r)
    \/ \E e \in ModelFaults : IterRaises(r, e)
    \/ Respond(r)

\* Whether a request ends does not depend on what its bytes and texts are:
\* the fair specification draws them from one body of even and one of odd
\* length, one segment text and one info.
FairBuffers == { <<>>, <<7>> }

FairSegTexts == {Hello}

FairInfos == { [language |-> "en", language_probability |-> 100] }

NextFair ==
    \/ \E r \in Reqs : Accept(r)
    \/ \E r \in Reqs : BodyArrives(r)
    \/ \E r \in Reqs, b \in FairBuffers : Resume(r, b)
    \/ \E r \in Reqs : BodyFails(r)
    \/ \E r \in Reqs : Decode(r)
    \/ \E r \in Reqs : CallModel(r)
    \/ \E r \in Reqs, inf \in FairInfos : ModelReturns(r, inf)
    \/ \E r \in Reqs, e \in ModelFaults : ModelRaises(r, e)
    \/ \E r \in Reqs, t \in FairSegTexts : YieldSegment(r, t)
    \/ \E r \in Reqs, e \in ModelFaults : IterRaises(r, e)
    \/ \E r \in Reqs : Exhausted(r)
    \/ \E r \in Reqs : Respond(r)
    \/ Health

\* The event loop runs every task that is ready: a task whose awaited body
\* has arrived is resumed, however often other tasks get the thread first.
Fairness ==
    \A r \in Reqs :
        /\ WF_vars(HandlerStep(r))
        /\ SF_vars(\E b \in FairBuffers : Resume(r, b))

SpecFair == Init /\ [][NextFair]_vars /\ Fairness

\* ------------------------------------------------- the decoder on its own

ByteSeqs == UNION { [1 .. n -> SampleBytes] : n \in 0 .. MaxBytes }

InitDecode ==
    /\ pc = [r \in Reqs |-> "idle"]
    /\ wire = [r \in Reqs |-> "waiting"]
    /\ audio_data = [r \in Reqs |-> <<>>]
    /\ audio_float = [r \in Reqs |-> <<>>]
    /\ info = [r \in Reqs |-> NoInfo]
    /\ text_parts = [r \in Reqs |-> <<>>]
    /\ emitted = [r \in Reqs |-> <<>>]
    /\ result = [r \in Reqs |-> NoResult]
    /\ raised = [r \in Reqs |-> "none"]
    /\ calls = [r \in Reqs |-> 0]
    /\ inflight = {}
    /\ running = NoReq
    /\ ready = <<>>
    /\ blocked = {}
    /\ modelFaulted = FALSE
    /\ model_size \in ModelSizes
    /\ device \in Devices
    /\ startup = [size |-> model_size, device |-> device]
    /\ healthResp = NoResult
    /\ dec_in \in ByteSeqs
    /\ dec_out = NoResult

\* Lines 34-37 on dec_in, the buffer accepted.
DecodeAccepts ==
    /\ dec_out = NoResult
    /\ BufferOk(dec_in)
    /\ dec_out' = [ok |-> TRUE, samples |-> Normalize(FromBuffer(dec_in))]
    /\ UNCHANGED << reqVars, model_size, device, startup, healthResp, dec_in >>

\* Line 34 on dec_in, the buffer refused.
DecodeRejects ==
    /\ dec_out = NoResult
    /\ ~BufferOk(dec_in)
    /\ dec_out' = [ok |-> FALSE, error |-> BufferSizeError.msg]
    /\ UNCHANGED << reqVars, model_size, device, startup, healthResp, dec_in >>

NextDecode == DecodeAccepts \/ DecodeRejects

SpecDecode == InitDecode /\ [][NextDecode]_vars

\* ------------------------------------------------------------------ claims

Terminal == {"succeeded", "failed"}

SuccessKeys == {"text", "is_final", "language", "language_probability"}

FailureKeys == {"text", "is_final", "error"}

\* C1: every transcription request ends with a structured result: whichever
\* step raises (reading the body, decoding the bytes, model.transcribe or the
\* iteration of the segments), the handler returns a result object and no
\* exception leaves the handler.
C1_EveryFaultBecomesAResult ==
    \A r \in Reqs :
        /\ pc[r] # "crashed"
        /\ raised[r] # "none" =>
              /\ pc[r] = "failed"
              /\ {"text", "is_final"} \subseteq DOMAIN result[r]
        /\ pc[r] \in Terminal => {"text", "is_final"} \subseteq DOMAIN result[r]

\* C1 witness: the generator raised after it had yielded a segment, and the
\* request holds an error result.
C1_Witness ==
    \E r \in Reqs :
        /\ raised[r] = "segments"
        /\ Len(emitted[r]) >= 1
        /\ pc[r] = "failed"
        /\ "error" \in DOMAIN result[r]

\* C2: at most one inference is in flight against the shared model at any
\* instant: no two requests are both between the start of their
\* model.transcribe call and the end of their segment sequence.
C2_OneInferenceAtATime == Cardinality(inflight) <= 1

\* C2 witness: one request is iterating its segments while every other
\* request has its body on the connection and waits.
C2_Witness ==
    \E r \in Reqs :
        /\ r \in inflight
        /\ pc[r] = "assembling"
        /\ \A q \in Reqs \ {r} : pc[q] = "reading" /\ wire[q] = "arrived"

\* C3: for every odd-length byte buffer, decoding fails and never yields a
\* truncated or padded sample sequence; the request ends Failed with text "",
\* is_final true and an error message, the model not having been called.
C3_OddBufferFails ==
    \A r \in Reqs :
        (pc[r] \notin {"idle", "reading", "decoding"}
            /\ Len(audio_data[r]) % 2 = 1) =>
            /\ pc[r] = "failed"
            /\ raised[r] = "decode"
            /\ audio_float[r] = <<>>
            /\ calls[r] = 0
            /\ DOMAIN result[r] = FailureKeys
            /\ result[r].text = <<>>
            /\ result[r].is_final = TRUE
            /\ result[r].error # ""

\* C3 witness: a request with a three-byte body has ended Failed.
C3_Witness ==
    \E r \in Reqs :
        /\ audio_data[r] = <<1, 0, 255>>
        /\ pc[r] = "failed"
        /\ result[r].error = BufferSizeError.msg

\* A request whose body was read and is empty, past its decoding.
EmptyBodyDecoded(r) ==
    /\ pc[r] \notin {"idle", "reading", "decoding"}
    /\ raised[r] # "body"
    /\ audio_data[r] = <<>>

C5_TwoResultShapes ==
    \A r \in Reqs :
        IF pc[r] = "succeeded"
        THEN /\ DOMAIN result[r] = SuccessKeys
             /\ result[r].is_final = TRUE
             /\ result[r].language = info[r].language
             /\ result[r].language_probability \in 0 .. 100
        ELSE IF pc[r] = "failed"
        THEN /\ DOMAIN result[r] = FailureKeys
             /\ result[r].is_final = TRUE
             /\ result[r].text = <<>>
        ELSE result[r] = NoResult

\* C5 witness: a request has ended Failed on a fault of model.transcribe.
C5_Witness ==
    \E r \in Reqs :
        /\ pc[r] = "failed"
        /\ raised[r] = "transcribe"
        /\ result[r].error = "device fault"

\* C6: after any sequence of transcription requests, including requests that
\* ended Failed because the model faulted, the readiness endpoint reports
\* status "ok" with the model size and device set at startup: request
\* handling leaves the configuration unchanged.
C6_ReadinessUnaffected ==
    /\ model_size = startup.size
    /\ device = startup.device
    /\ healthResp # NoResult =>
          healthResp =
              [status |-> "ok", model |-> startup.size,
               device |-> startup.device]

\* C6 witness: /health has answered after a request ended on a model fault.
C6_Witness ==
    /\ modelFaulted
    /\ healthResp # NoResult
    /\ healthResp.status = "ok"
    /\ \A r \in Reqs : pc[r] = "idle"

\* Request r is admitted to the model's side of the handler in this step.
Admitted(r) == pc[r] = "reading" /\ pc'[r] = "decoding"

\* The position of request r in the order of arrival.
ArrivalIndex(r) == CHOOSE i \in 1 .. Len(ready) : ready[i] = r

\* C7: a request that reaches the model while another request's inference
\* is in flight is either blocked until that inference ends, blocked callers
\* being admitted in FIFO order of arrival, or rejected with a Busy error; it
\* is never admitted alongside the inference in flight.  (The handler has no
\* Busy result, so every such request is a blocked caller.)
C7_BlockedCallersFifo ==
    [][\A r \in Reqs :
          Admitted(r) =>
              /\ inflight = {}
              /\ r \in blocked =>
                    \A q \in blocked : ArrivalIndex(r) <= ArrivalIndex(q)]_vars

\* The signed 16-bit integer whose low byte is lo and whose high byte is hi.
SignedLE(lo, hi) == lo + 256 * hi - (IF hi >= 128 THEN 65536 ELSE 0)

\* C8: for every even-length byte buffer, decoding yields exactly
\* len(bytes)/2 samples, the i-th being the little-endian signed 16-bit
\* integer at bytes 2i..2i+1 (counted from 0) divided by 32768, so that every
\* sample lies in [-1.0, 1.0] with an integer numerator in [-32768, 32767].
C8_EvenBufferDecodes ==
    (dec_out # NoResult /\ Len(dec_in) % 2 = 0) =>
        /\ dec_out.ok
        /\ Len(dec_out.samples) * 2 = Len(dec_in)
        /\ \A i \in 1 .. Len(dec_out.samples) :
              LET s == dec_out.samples[i] IN
              /\ s.den = 32768
              /\ s.num = SignedLE(dec_in[2 * i - 1], dec_in[2 * i])
              /\ s.num \in -32768 .. 32767
              /\ -s.den <= s.num /\ s.num <= s.den

\* C8 witness: a two-sample buffer was decoded, one sample being -1.0 and
\* the other the largest positive one.
C8_Witness ==
    /\ dec_in = <<0, 128, 255, 127>>
    /\ dec_out # NoResult
    /\ dec_out.ok
    /\ dec_out.samples[1].num = -32768
    /\ dec_out.samples[2].num = 32767

RECURSIVE TotalLen(_)
\* The number of characters of the texts of parts.
TotalLen(parts) ==
    IF parts = <<>> THEN 0 ELSE Len(Head(parts)) + TotalLen(Tail(parts))

\* The length of the texts of parts with one character between each two.
JoinedLen(parts) ==
    IF parts = <<>> THEN 0 ELSE TotalLen(parts) + Len(parts) - 1

RECURSIVE CharAt(_, _)
\* The k-th character of the texts of parts with one space between each two.
CharAt(parts, k) ==
    IF k <= Len(parts[1]) THEN parts[1][k]
    ELSE IF k = Len(parts[1]) + 1 THEN " "
    ELSE CharAt(Tail(parts), k - Len(parts[1]) - 1)

\* What the transcript of the segment texts parts has to be.
Transcript(parts) ==
    LET n == JoinedLen(parts)
        inked == {k \in 1 .. n : CharAt(parts, k) \notin Whitespace}
    IN  IF inked = {} THEN <<>>
        ELSE LET lo == CHOOSE k \in inked : \A m \in inked : k <= m
                 hi == CHOOSE k \in inked : \A m \in inked : k >= m
             IN  [k \in 1 .. (hi - lo + 1) |-> CharAt(parts, lo + k - 1)]

HelloWorld == <<"h", "e", "l", "l", "o", " ", "w", "o", "r", "l", "d">>

\* C9: the transcript text of a successful request is the texts of all
\* segments the model emitted for that request, each exactly once and in the
\* order emitted, joined by a single space, with leading and trailing
\* whitespace of the joined string removed; ["hello", "world"] gives exactly
\* "hello world" and an empty segment sequence gives "".
C9_TranscriptIsJoinedSegments ==
    \A r \in Reqs :
        pc[r] = "succeeded" =>
            /\ result[r].text = Transcript(emitted[r])
            /\ emitted[r] = <<Hello, World>> => result[r].text = HelloWorld
            /\ emitted[r] = <<>> => result[r].text = <<>>
            /\ result[r].text # <<>> =>
                  /\ Head(result[r].text) \notin Whitespace
                  /\ result[r].text[Len(result[r].text)] \notin Whitespace

\* C9 witness: the model emitted "hello" then "world" and the request
\* succeeded with the text "hello world".
C9_Witness ==
    \E r \in Reqs :
        /\ pc[r] = "succeeded"
        /\ emitted[r] = <<Hello, World>>
        /\ result[r].text = HelloWorld

\* The steps a request may take from one stage to another.
StageOrder ==
    { <<"idle", "reading">>, <<"reading", "decoding">>,
      <<"decoding", "transcribing">>, <<"transcribing", "assembling">>,
      <<"assembling", "succeeded">>,
      <<"reading", "failed">>, <<"decoding", "failed">>,
      <<"transcribing", "failed">>, <<"assembling", "failed">>,
      <<"succeeded", "idle">>, <<"failed", "idle">> }

\* C10: each request passes through its stages only in the order Decoding,
\* Transcribing, Assembling, then Succeeded, with Failed reachable from any
\* non-terminal stage; when decoding fails, model.transcribe is never
\* invoked for that request.
C10_StagesInOrder ==
    [][\A r \in Reqs :
          /\ pc'[r] # pc[r] => <<pc[r], pc'[r]>> \in StageOrder
          /\ calls'[r] > calls[r] => pc[r] = "transcribing"
          /\ raised'[r] = "decode" => calls'[r] = 0 /\ pc'[r] = "failed"]_vars

\* C10 witness: a request has ended Failed in its decoding without a call of
\* the model.
C10_Witness ==
    \E r \in Reqs :
        /\ pc[r] = "failed"
        /\ raised[r] = "decode"
        /\ calls[r] = 0

ModelSteps == {"transcribe", "segments"}

\* C11: the model is invoked at most once per request: after an inference
\* failure the handler goes to Failed without issuing a second transcribe
\* call for the same request.
C11_OneModelCallPerRequest ==
    \A r \in Reqs :
        /\ calls[r] <= 1
        /\ raised[r] \in ModelSteps =>
              /\ pc[r] = "failed"
              /\ calls[r] = 1
              /\ r \notin inflight

\* C11 witness: model.transcribe raised and the request is Failed after one
\* call.
C11_Witness ==
    \E r \in Reqs :
        /\ raised[r] = "transcribe"
        /\ pc[r] = "failed"
        /\ calls[r] = 1
        /\ inflight = {}

\* C12: if the model faults while the segment sequence is being consumed,
\* after one or more segments were emitted, the request ends Failed with text
\* "" and the error message: the text of the segments already collected never
\* appears in the result.
C12_PartialTextDropped ==
    \A r \in Reqs :
        raised[r] = "segments" =>
            /\ pc[r] = "failed"
            /\ DOMAIN result[r] = FailureKeys
            /\ result[r].text = <<>>
            /\ result[r].is_final = TRUE
            /\ result[r].error \in {f.msg : f \in ModelFaults}

\* C12 witness: the generator raised after "hello" and "world" had been
\* collected, and the result's text is empty.
C12_Witness ==
    \E r \in Reqs :
        /\ raised[r] = "segments"
        /\ text_parts[r] = <<Hello, World>>
        /\ pc[r] = "failed"
        /\ result[r].text = <<>>

\* C13: whenever the model completes without error and emits zero segments,
\* the request ends Succeeded with text "", is_final true, the detected
\* language and its probability present, and no error field.
C13_NoSegmentsSucceeds ==
    \A r \in Reqs :
        (pc[r] \in Terminal /\ raised[r] = "none" /\ emitted[r] = <<>>) =>
            /\ pc[r] = "succeeded"
            /\ result[r] =
                  [text |-> <<>>, is_final |-> TRUE,
                   language |-> info[r].language,
                   language_probability |-> info[r].language_probability]

\* C13 witness: a request with a one-sample body succeeded without a segment.
C13_Witness ==
    \E r \in Reqs :
        /\ audio_data[r] = <<0, 128>>
        /\ pc[r] = "succeeded"
        /\ emitted[r] = <<>>
        /\ "language_probability" \in DOMAIN result[r]

\* C14: under fair scheduling, each model call returning and each segment
\* sequence being finite, every accepted request (one whose body has been
\* received) eventually reaches Succeeded or Failed, also when the other
\* requests are concurrent and wait for the model; no request waits forever.
C14_EveryRequestEnds ==
    \A r \in Reqs :
        (pc[r] = "reading" /\ wire[r] = "arrived") ~> (pc[r] \in Terminal)

\* C14 witness: a request has ended while every other request, its body
\* received, waits for the thread, one of them since an inference was in
\* flight.
C14_Witness ==
    \E r \in Reqs :
        /\ pc[r] \in Terminal
        /\ \A q \in Reqs \ {r} : pc[q] = "reading" /\ wire[q] = "arrived"
        /\ blocked # {}

\* What request r has to be answered, from its own bytes and from what the
\* model gave for them.
OwnOutcome(r) ==
    IF raised[r] = "none"
    THEN [text |-> Transcript(emitted[r]), is_final |-> TRUE,
          language |-> info[r].language,
          language_probability |-> info[r].language_probability]
    ELSE [text |-> <<>>, is_final |-> TRUE,
          error |-> IF raised[r] = "body" THEN ""
                    ELSE IF raised[r] = "decode"
                    THEN "buffer size must be a multiple of element size"
                    ELSE "device fault"]

\* The data of request r.
OwnData(r) ==
    << audio_data[r], audio_float[r], info[r], text_parts[r], emitted[r],
       result[r] >>

\* C15: no state is retained across requests: under any interleaving of
\* concurrent requests and after any history of earlier requests, a request's
\* result is determined only by its own byte buffer and the model's output
\* for that buffer, and no step of one request changes the data of another.
C15_ResultFromOwnRequestOnly ==
    /\ [](\A r \in Reqs :
             pc[r] \in Terminal =>
                 /\ result[r] = OwnOutcome(r)
                 /\ raised[r] = "decode" <=> Len(audio_data[r]) % 2 = 1)
    /\ [][\A r \in Reqs :
             OwnData(r)' # OwnData(r) => (running = r \/ running' = r)]_vars

\* C15 witness: after an earlier request ended on a fault of the model, a
\* request succeeds with its own segment while another one waits.
C15_Witness ==
    \E r \in Reqs :
        /\ modelFaulted
        /\ pc[r] = "succeeded"
        /\ emitted[r] = <<Hello>>
        /\ result[r].text = Hello
        /\ \E q \in Reqs \ {r} : pc[q] = "reading" /\ wire[q] = "arrived"

\* The steps whose exceptions are the error kinds of the taxonomy: the
\* decoder's MalformedAudioError and the model's InferenceError.
TypedErrorSteps == {"decode", "transcribe", "segments"}

\* C16: only the typed error kinds of the taxonomy (MalformedAudioError,
\* InferenceError) are converted at the handler's boundary into a Failed
\* result with empty text; any other exception raised during request
\* handling is not mapped into an empty-transcript result.
C16_OnlyTypedErrorsBecomeResults ==
    \A r \in Reqs :
        (pc[r] = "failed" /\ result[r].text = <<>>) =>
            raised[r] \in TypedErrorSteps

====
